---- MODULE Spec2Model ----
(***************************************************************************)
(* Model of the Serena relay (src/relay.py): the proxy handler and the     *)
(* stream_with_keepalive generator.                                        *)
(*                                                                         *)
(* Every request slot r runs the handler `proxy` as a sequence of atomic   *)
(* segments separated by its suspension points (await request.body(),      *)
(* await client.post(...)); a streamed body is then produced by the        *)
(* generator stream_with_keepalive, driven by the transport layer.         *)
(***************************************************************************)
EXTENDS Integers, Sequences, FiniteSets, TLC

(***************************************************************************)
(* Bounds of the model.                                                    *)
(***************************************************************************)
NReq == 3
MaxChunks == 2
MaxFillers == 2
MaxEnvChanges == 1

(***************************************************************************)
(* Program constants.                                                      *)
(***************************************************************************)
KEEP_ALIVE_INTERVAL == 10
STREAM_TIMEOUT == 300
REGULAR_TIMEOUT == 60
ERROR_STATUS == 500

Reqs == 1 .. NReq

(***************************************************************************)
(* Python dictionaries with string keys: functions on a finite set of      *)
(* strings.                                                                *)
(***************************************************************************)
EmptyDict == [k \in {} |-> ""]

DictSet(d, key, val) ==
    [k \in (DOMAIN d) \cup {key} |-> IF k = key THEN val ELSE d[k]]

DictPop(d, key) == [k \in (DOMAIN d) \ {key} |-> d[k]]

\* dict(items): a later item replaces an earlier one with the same key.
RECURSIVE DictFromItems(_)
DictFromItems(items) ==
    IF items = << >> THEN EmptyDict
    ELSE LET n == Len(items)
         IN  DictSet(DictFromItems(SubSeq(items, 1, n - 1)),
                     items[n][1], items[n][2])

(***************************************************************************)
(* Header names as they appear on the wire, and their lower-case form.     *)
(* request.headers and response.headers present every name lower-cased.    *)
(***************************************************************************)
Lower(name) ==
    CASE name \in {"Authorization", "AUTHORIZATION", "AuThOrIzAtIoN",
                   "authorization"} -> "authorization"
      [] name \in {"Content-Type", "content-type"} -> "content-type"
      [] name \in {"X-Trace", "x-trace"} -> "x-trace"
      [] name \in {"Access-Control-Allow-Origin",
                   "access-control-allow-origin"} ->
             "access-control-allow-origin"
      [] name \in {"Access-Control-Allow-Credentials",
                   "access-control-allow-credentials"} ->
             "access-control-allow-credentials"
      [] OTHER -> name

LowerItems(items) ==
    [i \in DOMAIN items |-> << Lower(items[i][1]), items[i][2] >>]

\* dict(request.headers.items()) / dict(response.headers.items())
HeadersDict(wire) == DictFromItems(LowerItems(wire))

(***************************************************************************)
(* JSON values.                                                            *)
(***************************************************************************)
JNull == [t |-> "null"]
JNaN == [t |-> "nan"]
JBool(b) == [t |-> "bool", b |-> b]
JNum(n) == [t |-> "num", n |-> n]
JStr(s) == [t |-> "str", s |-> s]
JList(l) == [t |-> "list", l |-> l]
JObj(o) == [t |-> "obj", o |-> o]

Obj1(k, v) == JObj([x \in {k} |-> v])

Raised == [ok |-> FALSE]
Parsed(v) == [ok |-> TRUE, v |-> v]

\* json.loads on the body texts of the model.  Python's parser accepts the
\* constant NaN although it is not JSON.
json_loads(text) ==
    CASE text = "0" -> Parsed(JNum(0))
      [] text = "false" -> Parsed(JBool(FALSE))
      [] text = "null" -> Parsed(JNull)
      [] text = "NaN" -> Parsed(JNaN)
      [] text = "\"\"" -> Parsed(JStr(""))
      [] text = "\"function_call\"" -> Parsed(JStr("function_call"))
      [] text = "[]" -> Parsed(JList(<< >>))
      [] text = "[\"function_call\"]" ->
             Parsed(JList(<< JStr("function_call") >>))
      [] text = "{}" -> Parsed(JObj(EmptyDict))
      [] text = "{\"result\": 1}" -> Parsed(Obj1("result", JNum(1)))
      [] text = "{\"name\": \"search_code\"}" ->
             Parsed(Obj1("name", JStr("search_code")))
      [] text = "{\"function_call\": \"search_code\"}" ->
             Parsed(Obj1("function_call", JStr("search_code")))
      [] text = "{\"function_call\": null}" ->
             Parsed(Obj1("function_call", JNull))
      [] text = "{\"function_call\": {}}" ->
             Parsed(Obj1("function_call", JObj(EmptyDict)))
      [] text = "{\"function_call\": {\"name\": \"find_symbol\"}}" ->
             Parsed(Obj1("function_call",
                         Obj1("name", JStr("find_symbol"))))
      [] text = "{\"function_call\": {\"name\": \"search_code\"}}" ->
             Parsed(Obj1("function_call",
                         Obj1("name", JStr("search_code"))))
      [] OTHER -> Raised

\* Texts that are JSON documents (RFC 8259): what json_loads accepts,
\* except the constant NaN.
ValidJSON(text) == json_loads(text).ok /\ json_loads(text).v.t # "nan"

\* bool(value)
Truthy(v) ==
    CASE v.t = "null" -> FALSE
      [] v.t = "bool" -> v.b
      [] v.t = "num" -> v.n # 0
      [] v.t = "str" -> v.s # ""
      [] v.t = "list" -> v.l # << >>
      [] v.t = "obj" -> DOMAIN v.o # {}
      [] OTHER -> TRUE

\* json.dumps(content, allow_nan=False) raises ValueError on a NaN anywhere
\* in the value.
RECURSIVE HasNaN(_)
HasNaN(v) ==
    CASE v.t = "nan" -> TRUE
      [] v.t = "list" -> \E i \in DOMAIN v.l : HasNaN(v.l[i])
      [] v.t = "obj" -> \E k \in DOMAIN v.o : HasNaN(v.o[k])
      [] OTHER -> FALSE

(***************************************************************************)
(* Python operations used by the classifier.  Each returns Parsed(value)   *)
(* or Raised (the operation raises an exception).                          *)
(***************************************************************************)
\* key in s, for strings s of the model: only s = key contains key.
IsSubstring(key, s) == s = key

\* key in v
PyIn(key, v) ==
    CASE v.t = "obj" -> Parsed(key \in DOMAIN v.o)
      [] v.t = "list" ->
             Parsed(\E i \in DOMAIN v.l :
                       v.l[i].t = "str" /\ v.l[i].s = key)
      [] v.t = "str" -> Parsed(IsSubstring(key, v.s))
      [] OTHER -> Raised

\* v[key]
PyGetItem(v, key) ==
    IF v.t = "obj" /\ key \in DOMAIN v.o THEN Parsed(v.o[key]) ELSE Raised

\* v.get(key)
PyGet(v, key) ==
    IF v.t = "obj"
    THEN Parsed(IF key \in DOMAIN v.o THEN v.o[key] ELSE JNull)
    ELSE Raised

\* a == "search_code"
PyEqStr(v, s) == v.t = "str" /\ v.s = s

\* A bug of the classifier: any body that mentions function_call streams.
ClassifyAnyFunctionCall(body) ==
    LET p == json_loads(body)
    IN  IF ~p.ok THEN FALSE
        ELSE LET c == PyIn("function_call", p.v)
             IN  c.ok /\ c.v

\* The value of is_streaming after the try/except of the classifier: every
\* exception raised inside it leaves is_streaming = False.
Classify(body) ==
    LET p == json_loads(body)
    IN  IF ~p.ok THEN FALSE
        ELSE LET c == PyIn("function_call", p.v)
             IN  IF ~c.ok \/ ~c.v THEN FALSE
                 ELSE LET fc == PyGetItem(p.v, "function_call")
                      IN  IF ~fc.ok THEN FALSE
                          ELSE LET nm == PyGet(fc.v, "name")
                               IN  nm.ok /\ PyEqStr(nm.v, "search_code")

(***************************************************************************)
(* Header sanitizer.                                                       *)
(***************************************************************************)
\* A bug of the sanitizer: only the capitalised spelling is removed.
SanitizeCapitalOnly(headers) ==
    LET h1 == DictPop(headers, "Authorization")
    IN  IF "content-type" \notin DOMAIN h1
        THEN DictSet(h1, "content-type", "application/json")
        ELSE h1

Sanitize(headers) ==
    LET h1 == DictPop(headers, "authorization")
        h2 == DictPop(h1, "Authorization")
    IN  IF "content-type" \notin DOMAIN h2
        THEN DictSet(h2, "content-type", "application/json")
        ELSE h2

(***************************************************************************)
(* Process environment and configuration.                                  *)
(***************************************************************************)
Unset == "<unset>"

\* os.environ.get(name, default)
EnvGet(env, name, default) == IF env[name] = Unset THEN default ELSE env[name]

EnvUrls == {Unset, "https://upstream.example"}
EnvPasswords == {Unset, "s3cret"}

(***************************************************************************)
(* Inputs of the model.                                                    *)
(***************************************************************************)
ClientCredential == "Bearer client-token"
OtherCredential == "Basic b3RoZXI="

\* Inbound headers as the client wrote them (name, value), in order.
AllWireHeaders ==
    { << >>,
      << << "authorization", ClientCredential >> >>,
      << << "Authorization", ClientCredential >>,
         << "Content-Type", "text/plain" >> >>,
      << << "AUTHORIZATION", ClientCredential >>,
         << "X-Trace", "t1" >> >>,
      << << "AuThOrIzAtIoN", OtherCredential >>,
         << "authorization", ClientCredential >> >> }

AllBodies ==
    { "", "not json", "0", "null", "\"function_call\"",
      "[\"function_call\"]", "{}", "{\"name\": \"search_code\"}",
      "{\"function_call\": \"search_code\"}", "{\"function_call\": null}",
      "{\"function_call\": {}}",
      "{\"function_call\": {\"name\": \"find_symbol\"}}",
      "{\"function_call\": {\"name\": \"search_code\"}}" }

AllEndpoints == {"search_code", "v1/find_symbol"}

AllInbound ==
    [endpoint : AllEndpoints, headers : AllWireHeaders, body : AllBodies]

\* A few representative requests, for runs with concurrent requests.
FewInbound ==
    { [endpoint |-> "search_code",
       headers |-> << << "Authorization", ClientCredential >>,
                      << "Content-Type", "text/plain" >> >>,
       body |-> "{\"function_call\": {\"name\": \"search_code\"}}"],
      [endpoint |-> "v1/find_symbol",
       headers |-> << << "authorization", OtherCredential >> >>,
       body |-> "{\"function_call\": {\"name\": \"find_symbol\"}}"],
      [endpoint |-> "v1/find_symbol", headers |-> << >>,
       body |-> "not json"] }

\* Headers of an upstream response as upstream wrote them.
OwnUpstreamHeaders ==
    { << << "Content-Type", "application/json" >> >>,
      << << "Access-Control-Allow-Origin", "https://other.example" >>,
         << "access-control-allow-credentials", "true" >> >> }

AllStatuses == {200, 404}

AllUpstreamTexts ==
    { "", "plain text", "0", "false", "null", "\"\"", "[]", "{}",
      "{\"result\": 1}", "NaN" }

FewUpstreamTexts == { "{\"result\": 1}", "plain text" }

Chunks == {"data", "\n"}

(***************************************************************************)
(* State.                                                                  *)
(***************************************************************************)
VARIABLES
    environ,          \* os.environ: UPSTREAM_URL and SERENA_PASSWORD
    UPSTREAM_URL,     \* module constant read from the environment at import
    envChanges,       \* number of changes made to the environment
    pc,               \* position of the handler proxy of each request
    inbound,          \* the request as received
    is_streaming,     \* local variable of proxy
    outbound,         \* calls issued to upstream by the request, in order
    client,           \* httpx.AsyncClient of the request: none, open, closed
    response,         \* what client.post returned (local variable of proxy)
    relayed,          \* the response object returned by proxy
    logs,             \* log records written for the request
    gen,              \* position of the generator stream_with_keepalive
    genExit,          \* how the generator ended
    upBody,           \* chunks produced so far by the upstream body
    upState,          \* upstream body: none, open, eof, broken
    upRead,           \* number of upstream chunks read by the generator
    yielded,          \* items yielded by the generator, in order
    sleepArg,         \* argument of the pending asyncio.sleep, 0 if none
    cancelRequested   \* the transport has cancelled the response task

reqVars == << pc, inbound, is_streaming, outbound, client, response,
              relayed, logs >>
genVars == << gen, genExit, upBody, upState, upRead, yielded, sleepArg,
              cancelRequested >>
envVars == << environ, UPSTREAM_URL, envChanges >>
vars == << envVars, reqVars, genVars >>

NoRequest == [endpoint |-> "", headers |-> << >>, body |-> ""]
NoResponse == [kind |-> "none"]
NoUpstreamResponse == [status |-> 0, headers |-> << >>, text |-> ""]

Init ==
    /\ environ \in [UPSTREAM_URL : EnvUrls, SERENA_PASSWORD : EnvPasswords]
    /\ \/ environ.UPSTREAM_URL = Unset /\ environ.SERENA_PASSWORD = Unset
       \/ environ.UPSTREAM_URL # Unset /\ environ.SERENA_PASSWORD # Unset
    /\ UPSTREAM_URL =
           EnvGet(environ, "UPSTREAM_URL", "https://serena-mcp.fly.dev")
    /\ envChanges = 0
    /\ pc = [r \in Reqs |-> "idle"]
    /\ inbound = [r \in Reqs |-> NoRequest]
    /\ is_streaming = [r \in Reqs |-> FALSE]
    /\ outbound = [r \in Reqs |-> << >>]
    /\ client = [r \in Reqs |-> "none"]
    /\ response = [r \in Reqs |-> NoUpstreamResponse]
    /\ relayed = [r \in Reqs |-> NoResponse]
    /\ logs = [r \in Reqs |-> {}]
    /\ gen = [r \in Reqs |-> "none"]
    /\ genExit = [r \in Reqs |-> "none"]
    /\ upBody = [r \in Reqs |-> << >>]
    /\ upState = [r \in Reqs |-> "none"]
    /\ upRead = [r \in Reqs |-> 0]
    /\ yielded = [r \in Reqs |-> << >>]
    /\ sleepArg = [r \in Reqs |-> 0]
    /\ cancelRequested = [r \in Reqs |-> FALSE]

(***************************************************************************)
(* The environment of the process is changed (by code running in the       *)
(* process, outside the relay).                                            *)
(***************************************************************************)
EnvChange ==
    /\ envChanges < MaxEnvChanges
    /\ \E name \in {"UPSTREAM_URL", "SERENA_PASSWORD"} :
         \E val \in {"https://changed.example", "changed-secret"} :
            /\ (name = "UPSTREAM_URL") = (val = "https://changed.example")
            /\ environ' = [environ EXCEPT ![name] = val]
    /\ envChanges' = envChanges + 1
    /\ UNCHANGED << UPSTREAM_URL, reqVars, genVars >>

(***************************************************************************)
(* proxy: building the outbound call.                                      *)
(***************************************************************************)
\* f"{UPSTREAM_URL}/{endpoint}"
UpstreamUrl(base, endpoint) == << base, "/", endpoint >>

\* ("serena", os.environ.get("SERENA_PASSWORD", "password123"))
AuthTuple(env) == << "serena", EnvGet(env, "SERENA_PASSWORD", "password123") >>

\* A bug of the call: no per-call timeout is passed, so the client's own
\* timeout (line 379) governs every call.
MakeCallClientTimeout(req, env, base, headers, auth, streaming) ==
    [url |-> UpstreamUrl(base, req.endpoint),
     content |-> req.body,
     headers |-> headers,
     auth |-> auth,
     timeout |-> STREAM_TIMEOUT,
     stream |-> streaming,
     env |-> env]

\* The arguments of client.post.  env records the environment in effect
\* when the call was issued.
MakeCall(req, env, base, headers, auth, streaming) ==
    [url |-> UpstreamUrl(base, req.endpoint),
     content |-> req.body,
     headers |-> headers,
     auth |-> auth,
     timeout |-> IF streaming THEN STREAM_TIMEOUT ELSE REGULAR_TIMEOUT,
     stream |-> streaming,
     env |-> env]

\* A bug of the call: the password is taken from the client's credential.
UpstreamCallClientAuth(req, env, base) ==
    LET h == HeadersDict(req.headers)
    IN  MakeCall(req, env, base, Sanitize(h),
                 IF "authorization" \in DOMAIN h
                 THEN << "serena", h["authorization"] >>
                 ELSE AuthTuple(env),
                 Classify(req.body))

\* A bug of the call: state kept between requests (how many calls the
\* process has issued) leaks into the call.
UpstreamCallCounted(req, env, base) ==
    MakeCall(req, env, base,
             DictSet(Sanitize(HeadersDict(req.headers)), "x-relay-seq",
                     IF \A q \in Reqs : outbound[q] = << >>
                     THEN "first" ELSE "later"),
             AuthTuple(env), Classify(req.body))

UpstreamCall(req, env, base) ==
    MakeCall(req, env, base, Sanitize(HeadersDict(req.headers)),
             AuthTuple(env), Classify(req.body))

(***************************************************************************)
(* proxy: assembling responses.                                            *)
(***************************************************************************)
AddCors(headers) ==
    DictSet(DictSet(headers, "Access-Control-Allow-Origin", "*"),
            "Access-Control-Allow-Credentials", "false")

\* JSONResponse(content, status_code, headers): rendering the body raises
\* on NaN.
JSONResponse(content, status, headers) ==
    IF HasNaN(content) THEN Raised
    ELSE Parsed([kind |-> "json", status |-> status, headers |-> headers,
                 content |-> content])

\* A bug of the except handlers: the error response carries no headers.
ErrorResponseNoCors(message) ==
    [kind |-> "json", status |-> ERROR_STATUS,
     headers |-> EmptyDict,
     content |-> Obj1("error", JStr(message))]

ErrorResponse(message) ==
    [kind |-> "json", status |-> ERROR_STATUS,
     headers |-> AddCors(EmptyDict),
     content |-> Obj1("error", JStr(message))]

ForwardingError == "Error forwarding request: ..."
UnexpectedError == "Unexpected error: ..."

\* content if content else {}, content being response.json() or the
\* raw_response envelope.
RegularContent(text) ==
    LET p == json_loads(text)
        content == IF p.ok THEN p.v
                   ELSE Obj1("raw_response", JStr(text))
    IN  IF Truthy(content) THEN content ELSE JObj(EmptyDict)

\* The non-streaming branch after client.post returned resp.
RegularResponse(resp) ==
    JSONResponse(RegularContent(resp.text), resp.status,
                 AddCors(HeadersDict(resp.headers)))

\* response.headers.get("content-type", "application/json")
MediaType(headers) ==
    IF "content-type" \in DOMAIN headers THEN headers["content-type"]
    ELSE "application/json"

\* The streaming branch after client.post returned resp.
StreamingResponse(resp) ==
    [kind |-> "stream", status |-> resp.status,
     headers |-> AddCors(HeadersDict(resp.headers)),
     media_type |-> MediaType(HeadersDict(resp.headers))]

\* Headers an upstream may answer a call with: its own, or the request's
\* headers echoed back.
RECURSIVE ItemsOf(_)
ItemsOf(d) ==
    IF DOMAIN d = {} THEN << >>
    ELSE LET k == CHOOSE x \in DOMAIN d : TRUE
         IN  << << k, d[k] >> >> \o ItemsOf(DictPop(d, k))

UpstreamHeaders(own, call) == own \cup {ItemsOf(call.headers)}

\* A bug of the client's lifetime: the client is created without a scope
\* and nothing closes it.
LeaveClientOpen(c) == c

\* Leaving `async with httpx.AsyncClient(...) as client`, by return or by
\* exception: the client and its connections are closed.
ExitClientScope(c) == "closed"

(***************************************************************************)
(* proxy, up to its first suspension: the request arrives and the handler  *)
(* awaits request.body().                                                  *)
(***************************************************************************)
ReceiveRequest(r, In) ==
    /\ pc[r] = "idle"
    /\ \E req \in In.inbound : inbound' = [inbound EXCEPT ![r] = req]
    /\ pc' = [pc EXCEPT ![r] = "await_body"]
    /\ UNCHANGED << envVars, is_streaming, outbound, client, response,
                    relayed, logs, genVars >>

\* await request.body() raises (the client went away while sending): the
\* outer except Exception answers 500.
BodyReadFails(r) ==
    /\ pc[r] = "await_body"
    /\ relayed' = [relayed EXCEPT ![r] = ErrorResponse(UnexpectedError)]
    /\ logs' = [logs EXCEPT ![r] = @ \cup {"ERROR Unexpected error"}]
    /\ pc' = [pc EXCEPT ![r] = "done"]
    /\ UNCHANGED << envVars, inbound, is_streaming, outbound, client,
                    response, genVars >>

\* A bug of proxy: the call mode is decided from the body and the response
\* path from the endpoint, two decisions in place of one.
IssueUpstreamCallSplitDecision(r) ==
    /\ pc[r] = "await_body"
    /\ LET call == UpstreamCall(inbound[r], environ, UPSTREAM_URL)
       IN  /\ is_streaming' =
                 [is_streaming EXCEPT ![r] = inbound[r].endpoint = "search_code"]
           /\ outbound' = [outbound EXCEPT ![r] = Append(@, call)]
           /\ logs' = [logs EXCEPT ![r] = @ \cup {"INFO Proxying request"}]
    /\ client' = [client EXCEPT ![r] = "open"]
    /\ pc' = [pc EXCEPT ![r] = "await_post"]
    /\ UNCHANGED << envVars, inbound, response, relayed, genVars >>

\* The body is read; headers are sanitized, the request is classified, the
\* client is created and client.post is awaited.
IssueUpstreamCall(r) ==
    /\ pc[r] = "await_body"
    /\ LET call == UpstreamCall(inbound[r], environ, UPSTREAM_URL)
       IN  /\ is_streaming' = [is_streaming EXCEPT ![r] = call.stream]
           /\ outbound' = [outbound EXCEPT ![r] = Append(@, call)]
           /\ logs' = [logs EXCEPT ![r] =
                          @ \cup {"INFO Proxying request"}
                            \cup (IF call.stream
                                  THEN {"INFO Detected streaming endpoint"}
                                  ELSE {})]
    /\ client' = [client EXCEPT ![r] = "open"]
    /\ pc' = [pc EXCEPT ![r] = "await_post"]
    /\ UNCHANGED << envVars, inbound, response, relayed, genVars >>

\* A bug of the handler: a failed call is issued once more before giving up.
PostTransportErrorRetries(r) ==
    /\ pc[r] = "await_post"
    /\ IF Len(outbound[r]) < 2
       THEN /\ outbound' = [outbound EXCEPT ![r] = Append(@, @[Len(@)])]
            /\ UNCHANGED << client, relayed, logs, pc >>
       ELSE /\ client' = [client EXCEPT ![r] = ExitClientScope(client[r])]
            /\ relayed' = [relayed EXCEPT ![r] = ErrorResponse(ForwardingError)]
            /\ logs' = [logs EXCEPT ![r] =
                           @ \cup {"ERROR Error forwarding request"}]
            /\ pc' = [pc EXCEPT ![r] = "done"]
            /\ UNCHANGED outbound
    /\ UNCHANGED << envVars, inbound, is_streaming, response, genVars >>

\* client.post raises httpx.RequestError; the client's scope is left.
PostTransportError(r) ==
    /\ pc[r] = "await_post"
    /\ client' = [client EXCEPT ![r] = ExitClientScope(client[r])]
    /\ relayed' = [relayed EXCEPT ![r] = ErrorResponse(ForwardingError)]
    /\ logs' = [logs EXCEPT ![r] = @ \cup {"ERROR Error forwarding request"}]
    /\ pc' = [pc EXCEPT ![r] = "done"]
    /\ UNCHANGED << envVars, inbound, is_streaming, outbound, response,
                    genVars >>

\* client.post does not take the keyword stream (httpx releases without
\* it): TypeError, answered by the outer except Exception.
PostRejectsStreamKeyword(r) ==
    /\ pc[r] = "await_post"
    /\ is_streaming[r]
    /\ client' = [client EXCEPT ![r] = ExitClientScope(client[r])]
    /\ relayed' = [relayed EXCEPT ![r] = ErrorResponse(UnexpectedError)]
    /\ logs' = [logs EXCEPT ![r] = @ \cup {"ERROR Unexpected error"}]
    /\ pc' = [pc EXCEPT ![r] = "done"]
    /\ UNCHANGED << envVars, inbound, is_streaming, outbound, response,
                    genVars >>

\* client.post returns on the non-streaming branch.
PostReturnsRegular(r, In) ==
    /\ pc[r] = "await_post"
    /\ ~is_streaming[r]
    /\ \E status \in In.statuses, text \in In.texts,
          hdrs \in UpstreamHeaders(In.own, outbound[r][Len(outbound[r])]) :
         LET resp == [status |-> status, headers |-> hdrs, text |-> text]
             out == RegularResponse(resp)
         IN  /\ response' = [response EXCEPT ![r] = resp]
             /\ IF out.ok
                THEN /\ relayed' = [relayed EXCEPT ![r] = out.v]
                     /\ logs' = logs
                ELSE /\ relayed' = [relayed EXCEPT ![r] =
                                       ErrorResponse(UnexpectedError)]
                     /\ logs' = [logs EXCEPT ![r] =
                                    @ \cup {"ERROR Unexpected error"}]
    /\ client' = [client EXCEPT ![r] = ExitClientScope(client[r])]
    /\ pc' = [pc EXCEPT ![r] = "done"]
    /\ UNCHANGED << envVars, inbound, is_streaming, outbound, genVars >>

\* client.post returns on the streaming branch as soon as the headers
\* arrive; proxy returns the StreamingResponse, which leaves the client's
\* scope.  The body is produced afterwards by stream_with_keepalive.
PostReturnsStream(r, In) ==
    /\ pc[r] = "await_post"
    /\ is_streaming[r]
    /\ \E status \in In.statuses,
          hdrs \in UpstreamHeaders(In.own, outbound[r][Len(outbound[r])]) :
         LET resp == [status |-> status, headers |-> hdrs, text |-> ""]
         IN  /\ response' = [response EXCEPT ![r] = resp]
             /\ relayed' = [relayed EXCEPT ![r] = StreamingResponse(resp)]
    /\ client' = [client EXCEPT ![r] = ExitClientScope(client[r])]
    /\ pc' = [pc EXCEPT ![r] = "streaming"]
    /\ gen' = [gen EXCEPT ![r] = "created"]
    /\ upState' = [upState EXCEPT ![r] = "open"]
    /\ UNCHANGED << envVars, inbound, is_streaming, outbound, logs, genExit,
                    upBody, upRead, yielded, sleepArg, cancelRequested >>

(***************************************************************************)
(* The upstream body (response.aiter_bytes()).                             *)
(***************************************************************************)
UpstreamSends(r, In) ==
    /\ pc[r] = "streaming"
    /\ upState[r] = "open"
    /\ Len(upBody[r]) < MaxChunks
    /\ \E c \in In.chunks[r] :
         upBody' = [upBody EXCEPT ![r] = Append(@, c)]
    /\ UNCHANGED << envVars, reqVars, gen, genExit, upState, upRead, yielded,
                    sleepArg, cancelRequested >>

UpstreamEnds(r) ==
    /\ pc[r] = "streaming"
    /\ upState[r] = "open"
    /\ upState' = [upState EXCEPT ![r] = "eof"]
    /\ UNCHANGED << envVars, reqVars, gen, genExit, upBody, upRead, yielded,
                    sleepArg, cancelRequested >>

UpstreamBreaks(r) ==
    /\ pc[r] = "streaming"
    /\ upState[r] = "open"
    /\ upState' = [upState EXCEPT ![r] = "broken"]
    /\ UNCHANGED << envVars, reqVars, gen, genExit, upBody, upRead, yielded,
                    sleepArg, cancelRequested >>

(***************************************************************************)
(* stream_with_keepalive.  gen is the generator's position:                *)
(*   created       not started                                             *)
(*   await_chunk   in `async for`, awaiting the next upstream chunk        *)
(*   yield_chunk   suspended at `yield chunk`                              *)
(*   yield_filler  suspended at `yield b"\n"`                              *)
(*   sleep         awaiting asyncio.sleep(keep_alive_interval)             *)
(*   finished      ended, genExit says how                                 *)
(***************************************************************************)
Phase(r) ==
    CASE gen[r] \in {"created", "await_chunk", "yield_chunk"} -> "FORWARDING"
      [] gen[r] \in {"yield_filler", "sleep"} -> "KEEPALIVE"
      [] OTHER -> "NONE"

FromUpstream(c) == [src |-> "upstream", data |-> c]
Filler == [src |-> "filler", data |-> "\n"]

FillerCount(items) ==
    Cardinality({i \in DOMAIN items : items[i].src = "filler"})

\* A bug of the forwarding loop: blank chunks are not forwarded.
YieldChunkSkipBlank(items, c) ==
    IF c = "\n" THEN items ELSE Append(items, FromUpstream(c))

\* yield chunk
YieldChunk(items, c) == Append(items, FromUpstream(c))

\* yield b"\n".  The model records at most MaxFillers fillers; the loop
\* itself goes on.
YieldFiller(items) ==
    IF FillerCount(items) < MaxFillers THEN Append(items, Filler) ELSE items

\* A bug of the handler: CancelledError is logged and not raised again.
CancelledHandlerSwallows ==
    [exit |-> "StopAsyncIteration",
     log |-> "INFO Client disconnected, stopping stream"]

\* except asyncio.CancelledError: log at info level, raise.
CancelledHandler ==
    [exit |-> "CancelledError",
     log |-> "INFO Client disconnected, stopping stream"]

\* The transport asks for the next item: the generator starts, or resumes
\* after `yield chunk`, and awaits the next upstream chunk.
ResumeForwarding(r) ==
    /\ pc[r] = "streaming"
    /\ gen[r] \in {"created", "yield_chunk"}
    /\ ~cancelRequested[r]
    /\ gen' = [gen EXCEPT ![r] = "await_chunk"]
    /\ UNCHANGED << envVars, reqVars, genExit, upBody, upState, upRead,
                    yielded, sleepArg, cancelRequested >>

\* A bug of the relay: the upstream responses being streamed are kept in
\* state shared by the requests, and a relay may take its next chunk from
\* any of them.
ForwardChunkShared(r) ==
    /\ pc[r] = "streaming"
    /\ gen[r] = "await_chunk"
    /\ ~cancelRequested[r]
    /\ upRead[r] < Len(upBody[r])
    /\ \E q \in Reqs :
          /\ pc[q] = "streaming"
          /\ upRead[r] < Len(upBody[q])
          /\ yielded' = [yielded EXCEPT ![r] =
                            YieldChunk(@, upBody[q][upRead[r] + 1])]
    /\ upRead' = [upRead EXCEPT ![r] = @ + 1]
    /\ gen' = [gen EXCEPT ![r] = "yield_chunk"]
    /\ UNCHANGED << envVars, reqVars, genExit, upBody, upState, sleepArg,
                    cancelRequested >>

\* The awaited chunk arrives and is yielded.
ForwardChunk(r) ==
    /\ pc[r] = "streaming"
    /\ gen[r] = "await_chunk"
    /\ ~cancelRequested[r]
    /\ upRead[r] < Len(upBody[r])
    /\ upRead' = [upRead EXCEPT ![r] = @ + 1]
    /\ yielded' = [yielded EXCEPT ![r] =
                      YieldChunk(@, upBody[r][upRead[r] + 1])]
    /\ gen' = [gen EXCEPT ![r] = "yield_chunk"]
    /\ UNCHANGED << envVars, reqVars, genExit, upBody, upState, sleepArg,
                    cancelRequested >>

\* The upstream sequence is exhausted: the loop ends and the first filler
\* is yielded.
EnterKeepalive(r) ==
    /\ pc[r] = "streaming"
    /\ gen[r] = "await_chunk"
    /\ ~cancelRequested[r]
    /\ upRead[r] = Len(upBody[r])
    /\ upState[r] = "eof"
    /\ yielded' = [yielded EXCEPT ![r] = YieldFiller(@)]
    /\ gen' = [gen EXCEPT ![r] = "yield_filler"]
    /\ UNCHANGED << envVars, reqVars, genExit, upBody, upState, upRead,
                    sleepArg, cancelRequested >>

\* A bug of the forwarding loop: a failed read is taken for the end of the
\* upstream sequence, and the generator goes on to its keepalive loop.
UpstreamReadFailsEntersKeepalive(r) ==
    /\ pc[r] = "streaming"
    /\ gen[r] = "await_chunk"
    /\ ~cancelRequested[r]
    /\ upRead[r] = Len(upBody[r])
    /\ upState[r] = "broken"
    /\ yielded' = [yielded EXCEPT ![r] = YieldFiller(@)]
    /\ gen' = [gen EXCEPT ![r] = "yield_filler"]
    /\ UNCHANGED << envVars, reqVars, genExit, upBody, upState, upRead,
                    sleepArg, cancelRequested >>

\* Reading the upstream sequence raises: no handler of the generator
\* matches, the exception leaves it.
UpstreamReadFails(r) ==
    /\ pc[r] = "streaming"
    /\ gen[r] = "await_chunk"
    /\ ~cancelRequested[r]
    /\ upRead[r] = Len(upBody[r])
    /\ upState[r] = "broken"
    /\ gen' = [gen EXCEPT ![r] = "finished"]
    /\ genExit' = [genExit EXCEPT ![r] = "UpstreamError"]
    /\ pc' = [pc EXCEPT ![r] = "done"]
    /\ UNCHANGED << envVars, inbound, is_streaming, outbound, client,
                    response, relayed, logs, upBody, upState, upRead,
                    yielded, sleepArg, cancelRequested >>

\* The transport asks for the next item after a filler: the generator
\* resumes and awaits asyncio.sleep(keep_alive_interval).
ResumeKeepalive(r) ==
    /\ pc[r] = "streaming"
    /\ gen[r] = "yield_filler"
    /\ ~cancelRequested[r]
    /\ gen' = [gen EXCEPT ![r] = "sleep"]
    /\ sleepArg' = [sleepArg EXCEPT ![r] = KEEP_ALIVE_INTERVAL]
    /\ UNCHANGED << envVars, reqVars, genExit, upBody, upState, upRead,
                    yielded, cancelRequested >>

\* A bug of the keepalive loop: it ends after the delay.
SleepElapsesAndStops(r) ==
    /\ pc[r] = "streaming"
    /\ gen[r] = "sleep"
    /\ ~cancelRequested[r]
    /\ gen' = [gen EXCEPT ![r] = "finished"]
    /\ genExit' = [genExit EXCEPT ![r] = "StopAsyncIteration"]
    /\ sleepArg' = [sleepArg EXCEPT ![r] = 0]
    /\ pc' = [pc EXCEPT ![r] = "done"]
    /\ UNCHANGED << envVars, inbound, is_streaming, outbound, client,
                    response, relayed, logs, upBody, upState, upRead,
                    yielded, cancelRequested >>

\* A bug of the keepalive loop: after the delay the generator goes back to
\* reading the upstream sequence.
SleepElapsesRereads(r) ==
    /\ pc[r] = "streaming"
    /\ gen[r] = "sleep"
    /\ ~cancelRequested[r]
    /\ gen' = [gen EXCEPT ![r] = "await_chunk"]
    /\ sleepArg' = [sleepArg EXCEPT ![r] = 0]
    /\ UNCHANGED << envVars, reqVars, genExit, upBody, upState, upRead,
                    yielded, cancelRequested >>

\* The delay is over: the loop yields the next filler.
SleepElapses(r) ==
    /\ pc[r] = "streaming"
    /\ gen[r] = "sleep"
    /\ ~cancelRequested[r]
    /\ yielded' = [yielded EXCEPT ![r] = YieldFiller(@)]
    /\ gen' = [gen EXCEPT ![r] = "yield_filler"]
    /\ sleepArg' = [sleepArg EXCEPT ![r] = 0]
    /\ UNCHANGED << envVars, reqVars, genExit, upBody, upState, upRead,
                    cancelRequested >>

(***************************************************************************)
(* Cancellation by the transport layer on client disconnect.               *)
(***************************************************************************)
ClientDisconnects(r) ==
    /\ pc[r] = "streaming"
    /\ ~cancelRequested[r]
    /\ cancelRequested' = [cancelRequested EXCEPT ![r] = TRUE]
    /\ UNCHANGED << envVars, reqVars, gen, genExit, upBody, upState, upRead,
                    yielded, sleepArg >>

\* The response task is cancelled while the generator awaits (the next
\* chunk, or the delay): CancelledError is raised inside the generator.
CancelInGenerator(r) ==
    /\ pc[r] = "streaming"
    /\ cancelRequested[r]
    /\ gen[r] \in {"await_chunk", "sleep"}
    /\ gen' = [gen EXCEPT ![r] = "finished"]
    /\ genExit' = [genExit EXCEPT ![r] = CancelledHandler.exit]
    /\ logs' = [logs EXCEPT ![r] = @ \cup {CancelledHandler.log}]
    /\ sleepArg' = [sleepArg EXCEPT ![r] = 0]
    /\ pc' = [pc EXCEPT ![r] = "done"]
    /\ UNCHANGED << envVars, inbound, is_streaming, outbound, client,
                    response, relayed, upBody, upState, upRead, yielded,
                    cancelRequested >>

\* The response task is cancelled while it sends an item (the generator
\* is suspended at a yield, or not started): the generator is closed
\* without resuming its body's handlers.
CancelInTransport(r) ==
    /\ pc[r] = "streaming"
    /\ cancelRequested[r]
    /\ gen[r] \in {"created", "yield_chunk", "yield_filler"}
    /\ gen' = [gen EXCEPT ![r] = "finished"]
    /\ genExit' = [genExit EXCEPT ![r] = "GeneratorExit"]
    /\ pc' = [pc EXCEPT ![r] = "done"]
    /\ UNCHANGED << envVars, inbound, is_streaming, outbound, client,
                    response, relayed, logs, upBody, upState, upRead,
                    yielded, sleepArg, cancelRequested >>

(***************************************************************************)
(* Specifications.                                                         *)
(***************************************************************************)
\* Every input of the model.
AllInputs ==
    [inbound |-> AllInbound, texts |-> AllUpstreamTexts,
     statuses |-> AllStatuses, own |-> OwnUpstreamHeaders,
     chunks |-> [r \in Reqs |-> Chunks]]

\* Representative inputs, for the runs with fairness.
FewInputs ==
    [inbound |-> FewInbound, texts |-> FewUpstreamTexts,
     statuses |-> AllStatuses, own |-> OwnUpstreamHeaders,
     chunks |-> [r \in Reqs |-> Chunks]]

\* Representative inputs for concurrent requests; the upstream bodies of
\* different requests carry different chunks.
ConcInputs ==
    [inbound |-> FewInbound, texts |-> FewUpstreamTexts,
     statuses |-> {200},
     own |-> {<< << "Content-Type", "application/json" >> >>},
     chunks |-> [r \in Reqs |-> IF r % 2 = 1 THEN {"data"} ELSE {"\n"}]]

\* The steps of one request, with inputs drawn from In.
Handle(r, In) ==
    \/ ReceiveRequest(r, In)
    \/ BodyReadFails(r)
    \/ IssueUpstreamCall(r)
    \/ PostTransportError(r)
    \/ PostRejectsStreamKeyword(r)
    \/ PostReturnsRegular(r, In)
    \/ PostReturnsStream(r, In)
    \/ UpstreamSends(r, In)
    \/ UpstreamEnds(r)
    \/ UpstreamBreaks(r)
    \/ ResumeForwarding(r)
    \/ ForwardChunk(r)
    \/ EnterKeepalive(r)
    \/ UpstreamReadFails(r)
    \/ ResumeKeepalive(r)
    \/ SleepElapses(r)
    \/ ClientDisconnects(r)
    \/ CancelInGenerator(r)
    \/ CancelInTransport(r)

\* The steps the event loop takes on its own: resuming the generator and
\* delivering a requested cancellation.
Scheduled(r) ==
    \/ ResumeForwarding(r)
    \/ ForwardChunk(r)
    \/ EnterKeepalive(r)
    \/ UpstreamReadFails(r)
    \/ ResumeKeepalive(r)
    \/ SleepElapses(r)
    \/ CancelInGenerator(r)
    \/ CancelInTransport(r)

Solo == {1}

Pair == {1, 2}

\* One request, every input of the model.
Next == \E r \in Solo : Handle(r, AllInputs)

Spec == Init /\ [][Next]_vars

\* One request, representative inputs, the event loop running.
FairNext == \E r \in Solo : Handle(r, FewInputs)

FairSpec ==
    /\ Init
    /\ [][FairNext]_vars
    /\ \A r \in Solo : WF_vars(Scheduled(r))

\* Two concurrent requests, representative inputs.
ConcNext == \E r \in Pair : Handle(r, ConcInputs)

ConcSpec == Init /\ [][ConcNext]_vars

\* The steps of a request that is not classified as streaming.
RegularHandle(r, In) ==
    \/ ReceiveRequest(r, In)
    \/ BodyReadFails(r)
    \/ IssueUpstreamCall(r)
    \/ PostTransportError(r)
    \/ PostReturnsRegular(r, In)

\* Non-streaming requests only; upstream echoes the headers it was sent.
RegularInputs ==
    [inbound |-> {q \in FewInbound : ~Classify(q.body)},
     texts |-> FewUpstreamTexts, statuses |-> {200}, own |-> {},
     chunks |-> [r \in Reqs |-> {}]]

\* Every request slot in use, non-streaming requests, in any interleaving.
RegularNext == \E r \in Reqs : RegularHandle(r, RegularInputs)

RegularSpec == Init /\ [][RegularNext]_vars

\* Non-streaming requests in every slot, while the process environment is
\* changed between and under them.
EnvNext == EnvChange \/ \E r \in Reqs : RegularHandle(r, RegularInputs)

EnvSpec == Init /\ [][EnvNext]_vars

(***************************************************************************)
(* Properties.                                                             *)
(***************************************************************************)
Fillers(k) == [i \in 1 .. k |-> Filler]

ReadChunks(r) == [i \in 1 .. upRead[r] |-> FromUpstream(upBody[r][i])]

\* C1: at every moment the items yielded by stream_with_keepalive are the
\* upstream chunks read so far, unchanged and in upstream order, followed
\* by zero or more fillers; a filler is present only once the upstream
\* sequence is exhausted, and no upstream chunk follows a filler.
C1_YieldedIsUpstreamThenFillers ==
    \A r \in Reqs :
       LET k == Len(yielded[r]) - upRead[r]
       IN  /\ k >= 0
           /\ yielded[r] = ReadChunks(r) \o Fillers(k)
           /\ k > 0 => upState[r] = "eof" /\ upRead[r] = Len(upBody[r])

C1_Witness ==
    \E r \in Reqs :
       /\ Len(upBody[r]) = MaxChunks
       /\ upRead[r] = MaxChunks
       /\ upBody[r][1] = "\n"
       /\ FillerCount(yielded[r]) = MaxFillers

\* C2: while a streamed body is still being produced (the relay is in
\* FORWARDING, upstream is not exhausted and nothing is cancelled) the
\* outbound client created in proxy has not been closed.
C2_ClientOpenWhileForwarding ==
    \A r \in Reqs :
       (/\ pc[r] = "streaming"
        /\ Phase(r) = "FORWARDING"
        /\ upState[r] = "open"
        /\ ~cancelRequested[r]) => client[r] = "open"

\* C3: once the upstream sequence is exhausted the relay leaves the
\* keepalive phase only by cancellation, every delay it awaits is the
\* fixed interval, and unless the relay is cancelled fillers are emitted
\* again and again without end, also after an empty upstream sequence.
C3_KeepaliveForever ==
    /\ [][\A r \in Solo :
             Phase(r) = "KEEPALIVE" /\ Phase(r)' # "KEEPALIVE"
                => cancelRequested[r]]_vars
    /\ [](\A r \in Solo : gen[r] = "sleep"
                => sleepArg[r] = KEEP_ALIVE_INTERVAL)
    /\ \A r \in Solo :
          \/ []<>(gen[r] = "yield_filler") /\ []<>(gen[r] = "sleep")
          \/ <>[](Phase(r) # "KEEPALIVE")

C3_Witness ==
    \E r \in Solo :
       /\ upBody[r] = << >>
       /\ gen[r] = "sleep"
       /\ FillerCount(yielded[r]) = MaxFillers
       /\ ~cancelRequested[r]

AwaitPoints == {"await_chunk", "sleep"}

ErrorLogs == {"ERROR Unexpected error", "ERROR Error forwarding request"}

\* C4: the consumer can cancel the relay at either await (next upstream
\* chunk, idle delay); once cancellation is requested nothing more is
\* yielded; the CancelledError raised at the await leaves the generator
\* again (it is not swallowed), is logged at info level only, and the
\* response stays the streamed one: no error response, no error log.
C4_CancellationIsGraceful ==
    /\ [](\A r \in Reqs :
             pc[r] = "streaming" /\ gen[r] \in AwaitPoints
                => IF cancelRequested[r]
                   THEN ENABLED CancelInGenerator(r)
                   ELSE ENABLED ClientDisconnects(r))
    /\ [][\A r \in Reqs :
             cancelRequested[r] => yielded'[r] = yielded[r]]_vars
    /\ [][\A r \in Reqs :
             cancelRequested[r] /\ gen[r] \in AwaitPoints
                /\ gen'[r] # gen[r]
                => /\ gen'[r] = "finished"
                   /\ genExit'[r] = "CancelledError"
                   /\ "INFO Client disconnected, stopping stream"
                         \in logs'[r]]_vars
    /\ [](\A r \in Reqs :
             cancelRequested[r]
                => /\ relayed[r].kind = "stream"
                   /\ relayed[r].status = response[r].status
                   /\ logs[r] \cap ErrorLogs = {})

C4_Witness ==
    \E r \in Reqs :
       /\ genExit[r] = "CancelledError"
       /\ FillerCount(yielded[r]) > 0
       /\ upRead[r] > 0

IsSearchCodeCall(text) ==
    /\ ValidJSON(text)
    /\ LET v == json_loads(text).v
       IN  /\ v.t = "obj"
           /\ "function_call" \in DOMAIN v.o
           /\ v.o["function_call"].t = "obj"
           /\ "name" \in DOMAIN v.o["function_call"].o
           /\ v.o["function_call"].o["name"].t = "str"
           /\ v.o["function_call"].o["name"].s = "search_code"

Classified(r) == outbound[r] # << >>

\* client.post returned on the non-streaming branch.
RegularReturned(r) ==
    pc[r] = "done" /\ ~is_streaming[r] /\ response[r].status # 0

\* C6: proxy takes the streaming path exactly for the bodies that parse as
\* JSON and hold a function_call object named search_code; every other
\* body takes the non-streaming path; classifying raises nothing and
\* answers nothing by itself.
C6_StreamingIffSearchCode ==
    \A r \in Reqs :
       /\ Classified(r) =>
             /\ is_streaming[r] = IsSearchCodeCall(inbound[r].body)
             /\ outbound[r][1].stream = IsSearchCodeCall(inbound[r].body)
       /\ pc[r] = "await_post" =>
             relayed[r] = NoResponse /\ logs[r] \cap ErrorLogs = {}
       /\ relayed[r].kind = "stream" => IsSearchCodeCall(inbound[r].body)
       /\ RegularReturned(r) => ~IsSearchCodeCall(inbound[r].body)

C6_Witness ==
    \E r \in Reqs :
       /\ relayed[r].kind = "stream"
       /\ inbound[r].body = "{\"function_call\": {\"name\": \"search_code\"}}"

\* Values the client sent in a credential header.
InboundCredentials(r) ==
    {inbound[r].headers[i][2] : i \in
        {j \in DOMAIN inbound[r].headers :
            Lower(inbound[r].headers[j][1]) = "authorization"}}

DictValues(d) == {d[k] : k \in DOMAIN d}

\* C7: whatever the casing of the inbound header names, no header sent
\* upstream is named authorization under any casing, and no value of the
\* inbound credential header is among the headers of the relayed response.
C7_CredentialsNotForwarded ==
    \A r \in Reqs :
       /\ \A i \in DOMAIN outbound[r] :
             \A k \in DOMAIN outbound[r][i].headers :
                Lower(k) # "authorization"
       /\ relayed[r] # NoResponse =>
             DictValues(relayed[r].headers) \cap InboundCredentials(r) = {}

C7_Witness ==
    \E r \in Reqs :
       /\ inbound[r].headers # << >>
       /\ inbound[r].headers[1][1] = "AUTHORIZATION"
       /\ relayed[r] # NoResponse
       /\ "x-trace" \in DOMAIN relayed[r].headers

\* C8: every outbound call carries the pair (serena, configured password),
\* a value fixed by the configuration alone: requests that differ in
\* headers, body or endpoint get the same pair, and nothing the client
\* sent is part of it.
C8_AuthIndependentOfClient ==
    \A r \in Reqs :
       \A i \in DOMAIN outbound[r] :
          /\ outbound[r][i].auth =
                << "serena",
                   EnvGet(environ, "SERENA_PASSWORD", "password123") >>
          /\ outbound[r][i].auth[2] \notin InboundCredentials(r)

C8_Witness ==
    \E r \in Reqs :
       /\ Classified(r)
       /\ InboundCredentials(r) = {ClientCredential, OtherCredential}
       /\ environ.SERENA_PASSWORD # Unset
       /\ inbound[r].endpoint = "v1/find_symbol"

JsonEq(a, b) == a.t = b.t /\ a = b

HasForcedOrigin(headers) ==
    /\ "Access-Control-Allow-Origin" \in DOMAIN headers
    /\ headers["Access-Control-Allow-Origin"] = "*"

\* C9: on the non-streaming path every upstream body that is valid JSON,
\* empty and falsy values included, is relayed with the upstream status,
\* a body equal to the upstream JSON value and
\* Access-Control-Allow-Origin: *.
C9_JsonBodyRelayedUnchanged ==
    \A r \in Reqs :
       RegularReturned(r) /\ ValidJSON(response[r].text) =>
          /\ relayed[r].kind = "json"
          /\ relayed[r].status = response[r].status
          /\ JsonEq(relayed[r].content, json_loads(response[r].text).v)
          /\ HasForcedOrigin(relayed[r].headers)

\* C10: on the non-streaming path every upstream body that is not valid
\* JSON, the empty body included, is relayed as {"raw_response": text}
\* with the upstream status: a normal response, not a 500 and not an
\* error body.
C10_NonJsonBodyWrapped ==
    \A r \in Reqs :
       RegularReturned(r) /\ ~ValidJSON(response[r].text) =>
          /\ relayed[r].kind = "json"
          /\ relayed[r].status = response[r].status
          /\ JsonEq(relayed[r].content,
                    Obj1("raw_response", JStr(response[r].text)))
          /\ logs[r] \cap ErrorLogs = {}

\* A JSON response with status 500 and a body {"error": <string>}.
IsErrorEnvelope(resp) ==
    /\ resp.kind = "json"
    /\ resp.status = 500
    /\ resp.content.t = "obj"
    /\ DOMAIN resp.content.o = {"error"}
    /\ resp.content.o["error"].t = "str"

HasForcedCors(headers) ==
    /\ HasForcedOrigin(headers)
    /\ "Access-Control-Allow-Credentials" \in DOMAIN headers
    /\ headers["Access-Control-Allow-Credentials"] = "false"

\* client.post has ended without returning a response.
PostFailed(r) ==
    pc[r] = "done" /\ Classified(r) /\ response[r] = NoUpstreamResponse

\* C11: whenever client.post ends with a transport failure, on the
\* streaming or the non-streaming path, proxy answers status 500 with a
\* body {"error": "..."} and both forced CORS headers.
C11_TransportFailureAnswered ==
    /\ [][\A r \in Reqs :
             pc[r] = "await_post" /\ pc'[r] # "await_post"
                /\ response'[r] = NoUpstreamResponse
                => /\ pc'[r] = "done"
                   /\ IsErrorEnvelope(relayed'[r])
                   /\ HasForcedCors(relayed'[r].headers)]_vars
    /\ [](\A r \in Reqs :
             "ERROR Error forwarding request" \in logs[r]
                => /\ PostFailed(r)
                   /\ IsErrorEnvelope(relayed[r])
                   /\ HasForcedCors(relayed[r].headers)
                   /\ relayed[r].content.o["error"].s = ForwardingError)

C11_Witness ==
    \E r \in Reqs :
       /\ is_streaming[r]
       /\ "ERROR Error forwarding request" \in logs[r]
       /\ relayed[r].status = 500

\* A step of the request has failed: an except handler of proxy ran, or
\* the read of an upstream chunk raised inside stream_with_keepalive.
Failed(r) ==
    \/ logs[r] \cap ErrorLogs # {}
    \/ genExit[r] = "UpstreamError"

\* C12: every failure at any step (reading the body, the upstream call,
\* assembling the response, reading upstream chunks while the streamed
\* body is relayed) reaches the caller as a JSON error body with the forced
\* CORS pair; nothing but cancellation leaves the boundary as a raw fault.
C12_NoFaultEscapes ==
    \A r \in Reqs :
       Failed(r) => /\ IsErrorEnvelope(relayed[r])
                    /\ HasForcedCors(relayed[r].headers)

\* What the except handlers of proxy do establish: their own faults are
\* enveloped.
ProxyFaultsEnveloped ==
    \A r \in Reqs :
       logs[r] \cap ErrorLogs # {}
          => /\ IsErrorEnvelope(relayed[r])
             /\ HasForcedCors(relayed[r].headers)

\* The keys of a header mapping that are lname when compared without case.
KeysNamed(headers, lname) == {k \in DOMAIN headers : Lower(k) = lname}

\* The mapping carries exactly one entry for the name, with this value.
OnlyValue(headers, lname, val) ==
    /\ Cardinality(KeysNamed(headers, lname)) = 1
    /\ \A k \in KeysNamed(headers, lname) : headers[k] = val

\* C13: in every relayed response (streaming, non-streaming, failure) the
\* header mapping, read case-insensitively, carries exactly one value for
\* Access-Control-Allow-Origin, "*", and exactly one for
\* Access-Control-Allow-Credentials, "false", whatever the upstream sent.
C13_ForcedCorsOverrides ==
    \A r \in Reqs :
       relayed[r].kind # "none"
          => /\ OnlyValue(relayed[r].headers,
                          "access-control-allow-origin", "*")
             /\ OnlyValue(relayed[r].headers,
                          "access-control-allow-credentials", "false")

\* What lines 392-394 and 421-423 do establish: the two capitalised keys
\* hold the forced values.
ForcedCorsKeysSet ==
    \A r \in Reqs :
       relayed[r].kind # "none" => HasForcedCors(relayed[r].headers)

\* C14: a request is classified once, in the step that issues the upstream
\* call, and the decision is never revised: the is_streaming that chose the
\* call mode is the one that chooses the response path.
C14_ClassifiedOnce ==
    /\ [](\A r \in Reqs :
             /\ ~Classified(r) => ~is_streaming[r] /\ gen[r] = "none"
             /\ Classified(r) => outbound[r][1].stream = is_streaming[r]
             /\ relayed[r].kind = "stream" => is_streaming[r]
             /\ gen[r] # "none" => is_streaming[r]
             /\ RegularReturned(r) => ~is_streaming[r])
    /\ [][\A r \in Reqs :
             is_streaming'[r] # is_streaming[r]
                => ~Classified(r) /\ pc[r] = "await_body"
                     /\ pc'[r] = "await_post"]_vars

C14_Witness ==
    \E r \in Reqs :
       /\ is_streaming[r]
       /\ outbound[r][1].stream
       /\ relayed[r].kind = "stream"
       /\ Phase(r) = "KEEPALIVE"

\* C15: the relay keeps no state between requests: two identical
\* non-streaming requests, in any order and with other requests handled
\* around them, produce identical upstream calls (URL, sanitized headers,
\* auth, body), the call being the one the request alone determines.
C15_IdenticalRequestsIdenticalCalls ==
    \A r1, r2 \in Reqs :
       Classified(r1) /\ Classified(r2) /\ inbound[r1] = inbound[r2]
          => /\ outbound[r1] = outbound[r2]
             /\ outbound[r1][1].url =
                   << UPSTREAM_URL, "/", inbound[r1].endpoint >>
             /\ outbound[r1][1].content = inbound[r1].body

\* Two identical requests and a different third one, all answered.
C15_Witness ==
    \E r1, r2, r3 \in Reqs :
       /\ r1 # r2
       /\ inbound[r1] = inbound[r2]
       /\ inbound[r3] # inbound[r1]
       /\ \A r \in {r1, r2, r3} : Classified(r) /\ pc[r] = "done"
       /\ ~is_streaming[r1]

\* C16: a request causes at most one upstream call; once the call is
\* issued no further call is added, and a failed call is answered with
\* status 500 in the next step of the request, without another attempt.
C16_AtMostOneCall ==
    /\ [](\A r \in Reqs : Len(outbound[r]) <= 1)
    /\ [][\A r \in Reqs :
             /\ Classified(r) => outbound'[r] = outbound[r]
             /\ pc[r] = "await_post" /\ response'[r] = NoUpstreamResponse
                   => pc'[r] \in {"await_post", "done"}
             /\ pc[r] = "await_post" /\ pc'[r] = "done"
                  /\ response'[r] = NoUpstreamResponse
                   => relayed'[r].status = 500]_vars

C16_Witness ==
    \E r \in Reqs :
       /\ PostFailed(r)
       /\ ~is_streaming[r]
       /\ Len(outbound[r]) = 1
       /\ relayed[r].status = 500

\* C17: the timeout of an upstream call follows from the classification
\* alone: 300 seconds when the request is a search_code call, 60 seconds
\* otherwise, and a call never goes out with another timeout.
C17_TimeoutByClassification ==
    \A r \in Reqs :
       \A i \in DOMAIN outbound[r] :
          /\ outbound[r][i].timeout \in {60, 300}
          /\ outbound[r][i].timeout = 300
                <=> IsSearchCodeCall(inbound[r].body)
          /\ outbound[r][i].timeout = 60 <=> ~outbound[r][i].stream

C17_Witness ==
    \E r \in Reqs :
       /\ Classified(r)
       /\ ~is_streaming[r]
       /\ outbound[r][1].timeout = 60
       /\ ValidJSON(inbound[r].body)

\* The streaming case of C17.
StreamingCallIssued ==
    \E r \in Reqs :
       Classified(r) /\ is_streaming[r] /\ outbound[r][1].timeout = 300

\* C18: the upstream base URL and the password are read once, when the
\* process starts: all calls of one process go to the same base with the
\* same password, even when the environment is changed between requests.
C18_ConfigurationReadOnce ==
    \A r1, r2 \in Reqs :
       Classified(r1) /\ Classified(r2)
          => /\ outbound[r1][1].url[1] = outbound[r2][1].url[1]
             /\ outbound[r1][1].auth = outbound[r2][1].auth

\* What line 28 does establish: the base URL is the one read at import,
\* whatever the environment says later.
BaseUrlReadOnce ==
    \A r1, r2 \in Reqs :
       Classified(r1) /\ Classified(r2)
          => /\ outbound[r1][1].url[1] = outbound[r2][1].url[1]
             /\ outbound[r1][1].url[1] = UPSTREAM_URL

\* A call issued after the environment's UPSTREAM_URL was changed.
CallAfterUrlChange ==
    \E r \in Reqs :
       /\ Classified(r)
       /\ outbound[r][1].env["UPSTREAM_URL"] = "https://changed.example"

\* C19: the relay state only moves forward.  The generator starts in
\* FORWARDING; it enters KEEPALIVE only from FORWARDING, only when the
\* upstream sequence is exhausted (never on an upstream error or a
\* cancellation, which end the generator); from KEEPALIVE it never goes
\* back to FORWARDING and never reads upstream again; once ended it stays
\* ended.
C19_RelayStateMonotone ==
    [][\A r \in Reqs :
          /\ Phase(r) = "NONE" /\ Phase(r)' # "NONE"
                => gen[r] = "none" /\ Phase(r)' = "FORWARDING"
          /\ Phase(r) # "KEEPALIVE" /\ Phase(r)' = "KEEPALIVE"
                => /\ Phase(r) = "FORWARDING"
                   /\ upState[r] = "eof"
                   /\ upRead[r] = Len(upBody[r])
                   /\ ~cancelRequested[r]
                   /\ genExit'[r] = "none"
          /\ Phase(r) = "KEEPALIVE"
                => /\ Phase(r)' \in {"KEEPALIVE", "NONE"}
                   /\ upRead'[r] = upRead[r]
          /\ genExit'[r] # "none" => Phase(r)' = "NONE"
          /\ gen[r] = "finished" => gen'[r] = "finished"]_vars

\* A relay that forwarded every chunk, entered KEEPALIVE and went round
\* its loop.
C19_Witness ==
    \E r \in Reqs :
       /\ Phase(r) = "KEEPALIVE"
       /\ gen[r] = "sleep"
       /\ upRead[r] = MaxChunks
       /\ FillerCount(yielded[r]) >= 2

\* The other ways out of FORWARDING: an upstream error, a cancellation.
ForwardingEndedByFault ==
    \E r \in Reqs :
       /\ genExit[r] = "UpstreamError"
       /\ FillerCount(yielded[r]) = 0

\* Everything the model holds about one request.
ReqState(r) ==
    << pc[r], inbound[r], is_streaming[r], outbound[r], client[r],
       response[r], relayed[r], logs[r], gen[r], genExit[r], upBody[r],
       upState[r], upRead[r], yielded[r], sleepArg[r], cancelRequested[r] >>

Cancelled(r) == genExit[r] \in {"CancelledError", "GeneratorExit"}

\* C20: requests handled concurrently do not touch each other.  In every
\* interleaving a request's sanitized headers, classification and call are
\* the ones it determines alone; what is relayed on its response are the
\* chunks of its own upstream response, in order, then fillers; a step of
\* one request (its cancellation included) changes nothing of another,
\* and a cancelled request leaves the relay of another able to go on.
C20_RequestsIsolated ==
    /\ [](\A r \in Reqs :
             /\ Classified(r)
                   => /\ is_streaming[r] = IsSearchCodeCall(inbound[r].body)
                      /\ outbound[r][1].headers =
                            Sanitize(HeadersDict(inbound[r].headers))
                      /\ outbound[r][1].url =
                            << UPSTREAM_URL, "/", inbound[r].endpoint >>
                      /\ outbound[r][1].content = inbound[r].body
             /\ yielded[r] =
                   ReadChunks(r) \o Fillers(Len(yielded[r]) - upRead[r])
             /\ \A i \in DOMAIN yielded[r] :
                   yielded[r][i].src = "upstream"
                      => yielded[r][i].data \in ConcInputs.chunks[r]
             /\ \A q \in Reqs \ {r} :
                   (/\ Cancelled(q)
                    /\ pc[r] = "streaming"
                    /\ ~cancelRequested[r]
                    /\ gen[r] # "await_chunk") => ENABLED Scheduled(r))
    /\ [][\A r, q \in Reqs :
             r # q /\ ReqState(q)' # ReqState(q)
                => ReqState(r)' = ReqState(r)]_vars

\* Two relays with different upstream chunks; one was cancelled, the other
\* forwarded its chunk and went on to a filler.
C20_Witness ==
    \E r, q \in Reqs :
       /\ r # q
       /\ Cancelled(q)
       /\ upRead[q] > 0
       /\ upRead[r] > 0
       /\ upBody[r][1] # upBody[q][1]
       /\ ~cancelRequested[r]
       /\ FillerCount(yielded[r]) > 0

\* C21: when reading the upstream sequence fails in FORWARDING, the
\* generator ends there and never enters KEEPALIVE: the failing step takes
\* it from FORWARDING to its end and yields nothing; what was yielded are
\* the chunks read before the error, unchanged and in order; no filler is
\* ever yielded on a response whose upstream broke, and nothing at all
\* after the failed read.
C21_UpstreamErrorEndsRelay ==
    /\ [](\A r \in Reqs :
             /\ upState[r] = "broken"
                   => /\ Phase(r) # "KEEPALIVE"
                      /\ FillerCount(yielded[r]) = 0
                      /\ yielded[r] = ReadChunks(r)
             /\ genExit[r] = "UpstreamError"
                   => /\ upState[r] = "broken"
                      /\ gen[r] = "finished"
                      /\ upRead[r] = Len(upBody[r]))
    /\ [][\A r \in Reqs :
             /\ genExit[r] # "UpstreamError"
                  /\ genExit'[r] = "UpstreamError"
                   => /\ Phase(r) = "FORWARDING"
                      /\ Phase(r)' = "NONE"
                      /\ yielded'[r] = yielded[r]
             /\ genExit[r] = "UpstreamError"
                   => /\ yielded'[r] = yielded[r]
                      /\ gen'[r] = "finished"
                      /\ genExit'[r] = "UpstreamError"]_vars

\* The upstream broke after every chunk it had sent was forwarded, a blank
\* one among them.
C21_Witness ==
    \E r \in Reqs :
       /\ genExit[r] = "UpstreamError"
       /\ upRead[r] = MaxChunks
       /\ Len(yielded[r]) = MaxChunks
       /\ \E i \in DOMAIN upBody[r] : upBody[r][i] = "\n"

====
